---- MODULE Spec2Model ----
(***************************************************************************)
(* Model of the Power BI "Globe Countries" visual (src/src/visual.ts):     *)
(* the update cycle (row normalisation, colour classification, feature     *)
(* binding, legend), the hover and click handlers, and the state they      *)
(* share.  d3 scales and the globe renderer are external libraries; their  *)
(* observable behaviour is written out as operators at the places the      *)
(* visual constructs or calls them.                                        *)
(***************************************************************************)
EXTENDS Integers, Sequences, FiniteSets, TLC

(***************************************************************************)
(* Bounds of the model.                                                    *)
(***************************************************************************)
MaxRows == 2
MaxMeasures == 2

(***************************************************************************)
(* JavaScript values that occur in the payload and in feature properties.  *)
(* One record shape for all of them, so that values of different types can *)
(* be compared: t is the type tag, n the number, s the string.             *)
(***************************************************************************)
Num(n) == [t |-> "num", n |-> n, s |-> ""]
Str(s) == [t |-> "str", n |-> 0, s |-> s]
Null == [t |-> "null", n |-> 0, s |-> ""]
Undefined == [t |-> "undefined", n |-> 0, s |-> ""]
NaN == [t |-> "nan", n |-> 0, s |-> ""]

\* Number(v): null coerces to 0, a non-numeric string and undefined to NaN.
ToNumber(v) ==
    CASE v.t = "num" -> v
      [] v.t = "null" -> Num(0)
      [] OTHER -> NaN

\* isNumeric(value) == !isNaN(value) && isFinite(value)
isNumeric(v) == ToNumber(v).t = "num"

\* v ?? d : d replaces null and undefined only.
Nullish(v, d) == IF v.t \in {"null", "undefined"} THEN d ELSE v

\* v || d : d replaces every falsy value (undefined, null, 0, "", NaN).
Falsy(v) ==
    \/ v.t \in {"null", "undefined", "nan"}
    \/ v.t = "num" /\ v.n = 0
    \/ v.t = "str" /\ v.s = ""
OrElse(v, d) == IF Falsy(v) THEN d ELSE v

\* arr[i] for a 0-based index: undefined outside the array.
At(arr, i) == IF i >= 0 /\ i < Len(arr) THEN arr[i + 1] ELSE Undefined

RangeOf(seq) == {seq[i] : i \in 1..Len(seq)}

\* Math.min(...arr) and Math.max(...arr) for a non-empty array: every element
\* is coerced with Number(), and one NaN makes the result NaN.
RECURSIVE MinFrom(_, _, _)
MinFrom(arr, i, acc) ==
    IF i > Len(arr) THEN acc
    ELSE LET x == ToNumber(arr[i])
         IN  IF x.t = "nan" \/ acc.t = "nan" THEN NaN
             ELSE MinFrom(arr, i + 1, IF x.n < acc.n THEN x ELSE acc)
MathMin(arr) == MinFrom(arr, 2, ToNumber(arr[1]))

RECURSIVE MaxFrom(_, _, _)
MaxFrom(arr, i, acc) ==
    IF i > Len(arr) THEN acc
    ELSE LET x == ToNumber(arr[i])
         IN  IF x.t = "nan" \/ acc.t = "nan" THEN NaN
             ELSE MaxFrom(arr, i + 1, IF x.n > acc.n THEN x ELSE acc)
MathMax(arr) == MaxFrom(arr, 2, ToNumber(arr[1]))

\* Array.from(new Set(arr)): the distinct elements in first-seen order.
RECURSIVE UniqueFrom(_, _, _)
UniqueFrom(arr, i, acc) ==
    IF i > Len(arr) THEN acc
    ELSE UniqueFrom(arr, i + 1,
                    IF arr[i] \in RangeOf(acc) THEN acc ELSE Append(acc, arr[i]))
Unique(arr) == UniqueFrom(arr, 1, <<>>)

\* The 1-based position of the first element equal to x, 0 when there is none.
RECURSIVE IndexFrom(_, _, _)
IndexFrom(arr, x, i) ==
    IF i > Len(arr) THEN 0
    ELSE IF arr[i] = x THEN i ELSE IndexFrom(arr, x, i + 1)
IndexOf(arr, x) == IndexFrom(arr, x, 1)

(***************************************************************************)
(* Colours.  A colour is what a scale or an accessor returns:              *)
(*   "ramp"     d3.interpolateYlOrRd(num/den), the fraction clamped to     *)
(*              [0, 1] as the interpolator does, and in lowest terms;      *)
(*   "palette"  d3.schemeCategory10[num];                                  *)
(*   a literal  the CSS string itself ('white', '#FFFFFF', ...);           *)
(*   "undefined" the scale's unknown value; "rgb(NaN)" the interpolator's  *)
(*              output for a NaN position.                                 *)
(***************************************************************************)
RECURSIVE GCD(_, _)
GCD(a, b) == IF b = 0 THEN a ELSE GCD(b, a % b)

Literal(css) == [kind |-> css, num |-> 0, den |-> 1]
Ramp(num, den) ==
    IF num <= 0 THEN [kind |-> "ramp", num |-> 0, den |-> 1]
    ELSE IF num >= den THEN [kind |-> "ramp", num |-> 1, den |-> 1]
    ELSE [kind |-> "ramp", num |-> num \div GCD(num, den), den |-> den \div GCD(num, den)]
Palette(i) == [kind |-> "palette", num |-> i, den |-> 1]
UnknownColor == Literal("undefined")
InvalidColor == Literal("rgb(NaN)")
HighlightColor == Literal("white")
NeutralColor == Literal("rgba(0, 100, 0, 0.15)")
ClearColor == Literal("#FFFFFF")

\* d3.schemeCategory10 has ten colours.
PaletteSize == 10

\* d3.scaleSequential(d3.interpolateYlOrRd).domain([x0, x1]) applied to the
\* number num/den: a NaN end of the domain gives a NaN position, a degenerate
\* domain the middle of the ramp.
SequentialAt(x0, x1, num, den) ==
    IF x0.t = "nan" \/ x1.t = "nan" THEN InvalidColor
    ELSE IF x0.n = x1.n THEN Ramp(1, 2)
    ELSE Ramp(num - den * x0.n, den * (x1.n - x0.n))

\* The same scale applied to a value v: null, undefined and a value that is
\* not a number give the scale's unknown.
SequentialColor(x0, x1, v) ==
    IF v.t \in {"null", "undefined"} \/ ToNumber(v).t = "nan" THEN UnknownColor
    ELSE SequentialAt(x0, x1, ToNumber(v).n, 1)

\* d3.scaleSequentialSqrt(d3.interpolateYlOrRd) with its default domain [0, 1]
\* applied to v: the position is sign(v) * sqrt(|v|), clamped by the
\* interpolator, which for an integer is 0 (v <= 0) or 1 (v >= 1).
SequentialSqrtColor(v) ==
    IF v.t \in {"null", "undefined"} \/ ToNumber(v).t = "nan" THEN UnknownColor
    ELSE IF ToNumber(v).n >= 1 THEN Ramp(1, 1) ELSE Ramp(0, 1)

\* d3.scaleOrdinal(d3.schemeCategory10).domain(domain) applied to v: a value
\* outside the domain is appended to it (the implicit domain) and gets the
\* next palette colour.
OrdinalDomainAfter(domain, v) ==
    IF v \in RangeOf(domain) THEN domain ELSE Append(domain, v)
OrdinalColor(domain, v) ==
    Palette((IndexOf(OrdinalDomainAfter(domain, v), v) - 1) % PaletteSize)

\* this.colorScale, a d3 scale object, or undefined before the first cycle.
NoScale == [kind |-> "undefined", x0 |-> NaN, x1 |-> NaN, domain |-> <<>>]

\* determineColorScale(): the scale built from this.dataColors.
determineColorScale(colors) ==
    IF isNumeric(At(colors, 0))
    THEN [kind |-> "sequential", x0 |-> MathMin(colors), x1 |-> MathMax(colors),
          domain |-> <<>>]
    ELSE [kind |-> "ordinal", x0 |-> NaN, x1 |-> NaN, domain |-> Unique(colors)]

\* this.colorScale(v): the colour, and the scale after the call.
ScaleColor(scale, v) ==
    IF scale.kind = "sequential" THEN SequentialColor(scale.x0, scale.x1, v)
    ELSE OrdinalColor(scale.domain, v)
ScaleAfter(scale, v) ==
    IF scale.kind = "ordinal"
    THEN [scale EXCEPT !.domain = OrdinalDomainAfter(scale.domain, v)]
    ELSE scale

(***************************************************************************)
(* The feature catalog (assets/geodata.json): per feature the display name *)
(* ADMIN and the region code ISO_A2.  Features are named by their position *)
(* in countriesGeoJson.features.                                           *)
(***************************************************************************)
countriesGeoJson ==
    << [ADMIN |-> "Antarctica", ISO_A2 |-> "AQ"],
       [ADMIN |-> "France", ISO_A2 |-> "FR"],
       [ADMIN |-> "Spain", ISO_A2 |-> "ES"] >>
Features == 1..Len(countriesGeoJson)
NoFeature == 0

(***************************************************************************)
(* The state of the visual.                                                *)
(***************************************************************************)
VARIABLES
    dataView,                  \* options.dataViews[0] of the latest update()
    dataCategories,            \* this.dataCategories
    dataCategoriesSelections,  \* this.dataCategoriesSelections
    dataColors,                \* this.dataColors
    dataMeasuresDisplayName,   \* this.dataMeasuresDisplayName
    dataMeasuresValue,         \* this.dataMeasuresValue
    colorScale,                \* this.colorScale
    properties,                \* feature.properties of every catalog feature
    polygonsData,              \* globe.polygonsData(): the rendered features
    polygonCapColor,           \* globe.polygonCapColor(): which accessor is set
    polygonAltitude,           \* globe.polygonAltitude(): which accessor is set
    hoverObj,                  \* the feature the renderer holds as hovered
    legendContainer,           \* display style and children of the legend
    selectCalls                \* selectionManager.select calls of the last handler

vars == << dataView, dataCategories, dataCategoriesSelections, dataColors,
           dataMeasuresDisplayName, dataMeasuresValue, colorScale, properties,
           polygonsData, polygonCapColor, polygonAltitude, hoverObj,
           legendContainer, selectCalls >>

\* The properties the visual adds to a feature: value and orderIndex are absent
\* (undefined) until stamped; tooltip is the list tooltip0, tooltip1, ...
NoProperties == [value |-> Undefined, orderIndex |-> Undefined, tooltip |-> <<>>]

\* The selection id the host builds for row categoryIndex of a category column.
\* It is opaque to the visual; the host derives it from the column and the row.
createSelectionId(column, categoryIndex) ==
    [column |-> column, categoryIndex |-> Num(categoryIndex)]
UndefinedId == [column |-> <<>>, categoryIndex |-> Undefined]

\* this.dataCategoriesSelections[i] for a property value i (a number or
\* undefined): undefined outside the list.
SelectionAt(ids, i) ==
    IF i.t = "num" /\ i.n >= 0 /\ i.n < Len(ids) THEN ids[i.n + 1] ELSE UndefinedId

(***************************************************************************)
(* update(), step by step.                                                 *)
(***************************************************************************)
\* A mutant of BuildSelections: the list is not emptied first.
BuildSelectionsWithoutReset(column) ==
    dataCategoriesSelections \o [i \in 1..Len(column) |-> createSelectionId(column, i - 1)]

\* The reset at the top of update() and the loop over categoriesCount: one
\* selection id per row, in row order.
BuildSelections(column) ==
    [i \in 1..Len(column) |-> createSelectionId(column, i - 1)]

\* The forEach over dataView.categorical.values: a column with the measure role
\* is a measure; otherwise a column with the color role replaces dataColors.
RECURSIVE MeasureNames(_, _)
MeasureNames(values, i) ==
    IF i > Len(values) THEN <<>>
    ELSE IF "measure" \in values[i].roles
         THEN <<values[i].displayName>> \o MeasureNames(values, i + 1)
         ELSE MeasureNames(values, i + 1)
RECURSIVE MeasureValues(_, _)
MeasureValues(values, i) ==
    IF i > Len(values) THEN <<>>
    ELSE IF "measure" \in values[i].roles
         THEN <<values[i].values>> \o MeasureValues(values, i + 1)
         ELSE MeasureValues(values, i + 1)
RECURSIVE ColorValuesOf(_, _, _)
ColorValuesOf(values, i, acc) ==
    IF i > Len(values) THEN acc
    ELSE IF "measure" \notin values[i].roles /\ "color" \in values[i].roles
         THEN ColorValuesOf(values, i + 1, values[i].values)
         ELSE ColorValuesOf(values, i + 1, acc)

\* filterCountriesByCategories(categories).features
filterCountriesByCategories(categories) ==
    SelectSeq([f \in Features |-> f],
              LAMBDA f : countriesGeoJson[f].ADMIN \in RangeOf(categories))

\* setupGlobe's polygonsData: the catalog without the 'AQ' feature.
WithoutAQ ==
    SelectSeq([f \in Features |-> f], LAMBDA f : countriesGeoJson[f].ISO_A2 # "AQ")

\* The 1-based position of the last element equal to x, 0 when there is none.
RECURSIVE LastIndexFrom(_, _, _)
LastIndexFrom(arr, x, i) ==
    IF i < 1 THEN 0
    ELSE IF arr[i] = x THEN i ELSE LastIndexFrom(arr, x, i - 1)

\* A mutant of StampFeature: the last matching row instead of the first.
StampFeatureLastRow(old, f, categories, colors, names) ==
    LET found == LastIndexFrom(categories, countriesGeoJson[f].ADMIN, Len(categories))
        orderIndex == found - 1
    IN  IF found = 0 THEN old
        ELSE [value |-> IF Len(colors) > 0
                        THEN Nullish(At(colors, orderIndex), Num(0))
                        ELSE old.value,
              orderIndex |-> Num(orderIndex),
              tooltip |-> [i \in 1..(IF Len(names) > Len(old.tooltip)
                                     THEN Len(names) ELSE Len(old.tooltip)) |->
                              IF i <= Len(names) THEN names[i] ELSE old.tooltip[i]]]

\* The body of updateChoropleth's forEach for one feature: data.find gives the
\* first row whose name is the feature's ADMIN; nothing is stamped without one.
StampFeature(old, f, categories, colors, names) ==
    LET found == IndexOf(categories, countriesGeoJson[f].ADMIN)
        orderIndex == found - 1
    IN  IF found = 0 THEN old
        ELSE [value |-> IF Len(colors) > 0
                        THEN Nullish(At(colors, orderIndex), Num(0))
                        ELSE old.value,
              orderIndex |-> Num(orderIndex),
              tooltip |-> [i \in 1..(IF Len(names) > Len(old.tooltip)
                                     THEN Len(names) ELSE Len(old.tooltip)) |->
                              IF i <= Len(names) THEN names[i] ELSE old.tooltip[i]]]

\* updateChoropleth's forEach over filteredCountries.features.
StampAll(props, filtered, categories, colors, names) ==
    [f \in Features |->
        IF f \in RangeOf(filtered)
        THEN StampFeature(props[f], f, categories, colors, names)
        ELSE props[f]]

\* The legend entries updateLegend() appends.  A numeric first colour gives
\* steps + 1 samples min + i * stepSize, each coloured by a sequential scale
\* over [min, max] and labelled value.toFixed(2), kept here as the number of
\* hundredths; otherwise one entry per distinct colour value.
steps == 5
LegendSample(min, max, i) ==
    IF min.t = "nan" \/ max.t = "nan" THEN NaN
    ELSE [t |-> "fixed2", n |-> (100 * min.n) + i * ((100 * (max.n - min.n)) \div steps),
          s |-> ""]
LegendSampleColor(min, max, i) ==
    IF min.t = "nan" \/ max.t = "nan" THEN InvalidColor
    ELSE SequentialAt(min, max, (steps * min.n) + i * (max.n - min.n), steps)
LegendItems(colors, names, scale) ==
    IF isNumeric(At(colors, 0))
    THEN LET min == MathMin(colors)
             max == MathMax(colors)
         IN  [k \in 1..(steps + 1) |->
                 [color |-> LegendSampleColor(min, max, k - 1),
                  label |-> LegendSample(min, max, k - 1)]]
    ELSE LET uniqueCategories == Unique(colors)
         IN  [k \in 1..Len(uniqueCategories) |->
                 [color |-> ScaleColor(scale, uniqueCategories[k]),
                  label |-> IF k <= Len(names) /\ names[k] # ""
                            THEN Str(names[k]) ELSE uniqueCategories[k]]]

\* A mutant of LegendAfterUpdate: the old entries are not removed first.
LegendAfterUpdateAppending(legend, colors, names, scale) ==
    IF Len(colors) > 0
    THEN [display |-> "block",
          items |-> legend.items \o LegendItems(colors, names, scale)]
    ELSE [legend EXCEPT !.display = "none"]

\* A mutant of LegendAfterUpdate: the legend is not hidden without colours.
LegendAfterUpdateNeverHidden(legend, colors, names, scale) ==
    IF Len(colors) > 0
    THEN [display |-> "block", items |-> LegendItems(colors, names, scale)]
    ELSE legend

\* The tail of update(): the legend is rebuilt and shown when dataColors is
\* non-empty, and hidden (its children kept) otherwise.
LegendAfterUpdate(legend, colors, names, scale) ==
    IF Len(colors) > 0
    THEN [display |-> "block", items |-> LegendItems(colors, names, scale)]
    ELSE [legend EXCEPT !.display = "none"]

\* A mutant of ClearedPolygons: clearGlobe() is not called, the polygons stay.
ClearedPolygonsKept == polygonsData

\* clearGlobe(): no polygons, a constant white cap colour.
ClearedPolygons == <<>>

\* updateChoropleth's polygonsData: it replaces the polygons setupGlobe has
\* just set (fromSetup) by the filtered features, or clears the globe when
\* there is no row.
updateChoroplethPolygons(fromSetup, filteredCountries, categories) ==
    IF Len(categories) > 0 THEN filteredCountries ELSE ClearedPolygons

\* One pass of the renderer over the rendered features with the hover accessor
\* d === hoverD ? 'white' : this.colorScale(d.properties.value): every call of
\* an ordinal scale may extend its domain.
RECURSIVE ScaleAfterRender(_, _, _, _)
ScaleAfterRender(scale, polygons, i, hoverD) ==
    IF i > Len(polygons) THEN scale
    ELSE ScaleAfterRender(
             IF polygons[i] = hoverD THEN scale
             ELSE ScaleAfter(scale, properties[polygons[i]].value),
             polygons, i + 1, hoverD)

\* The colour the renderer is given for feature f by the accessor now set.
CapColor(f) ==
    CASE polygonCapColor = "updateChoropleth" ->
             IF Len(dataColors) > 0
             THEN SequentialSqrtColor(OrElse(properties[f].value, Num(0)))
             ELSE NeutralColor
      [] polygonCapColor = "onPolygonHover" ->
             IF f = hoverObj THEN HighlightColor
             ELSE ScaleColor(colorScale, properties[f].value)
      [] polygonCapColor = "clearGlobe" -> ClearColor
      [] OTHER -> Literal("#ffffaa")

(***************************************************************************)
(* options.dataViews[0].categorical as update() reads it: hasCategories    *)
(* says whether dataView, its categorical and its categories are all       *)
(* defined, categories is categories[0].values, values the value columns.  *)
(***************************************************************************)
ColorColumn(vals) == [roles |-> {"color"}, displayName |-> "Color", values |-> vals]
MeasureColumn(name, vals) == [roles |-> {"measure"}, displayName |-> name, values |-> vals]
Payload(cats, cols) == [hasCategories |-> TRUE, categories |-> cats, values |-> cols]
NoCategories == [hasCategories |-> FALSE, categories |-> <<>>, values |-> <<>>]

(***************************************************************************)
(* Initial state: the state the constructor leaves.                        *)
(***************************************************************************)
Init ==
    /\ dataView = NoCategories
    /\ dataCategories = <<>>
    /\ dataCategoriesSelections = <<>>
    /\ dataColors = <<>>
    /\ dataMeasuresDisplayName = <<>>
    /\ dataMeasuresValue = <<>>
    /\ colorScale = NoScale
    /\ properties = [f \in Features |-> NoProperties]
    /\ polygonsData = <<>>
    /\ polygonCapColor = "default"
    /\ polygonAltitude = "default"
    /\ hoverObj = NoFeature
    /\ legendContainer = [display |-> "none", items |-> <<>>]
    /\ selectCalls = <<>>

(***************************************************************************)
(* update(options) for the payload p = options.dataViews[0].categorical:   *)
(* p.hasCategories says whether p.categories is defined, p.categories is   *)
(* categories[0].values and p.values the value columns.                    *)
(***************************************************************************)
Update(p) ==
    /\ dataView' = p
    /\ IF p.hasCategories
       THEN LET categories == p.categories
                names == MeasureNames(p.values, 1)
                colors == ColorValuesOf(p.values, 1, <<>>)
                filteredCountries == filterCountriesByCategories(categories)
                scale == determineColorScale(colors)
            IN  /\ dataCategories' = categories
                /\ dataCategoriesSelections' = BuildSelections(categories)
                /\ dataMeasuresDisplayName' = names
                /\ dataMeasuresValue' = MeasureValues(p.values, 1)
                /\ dataColors' = colors
                /\ colorScale' = scale
                /\ polygonAltitude' = "constant"
                /\ polygonsData' = updateChoroplethPolygons(WithoutAQ, filteredCountries,
                                                            categories)
                /\ IF Len(categories) > 0
                   THEN /\ properties' = StampAll(properties, filteredCountries,
                                                  categories, colors, names)
                        /\ polygonCapColor' = "updateChoropleth"
                   ELSE /\ properties' = properties
                        /\ polygonCapColor' = "clearGlobe"
                /\ legendContainer' = LegendAfterUpdate(legendContainer, colors, names, scale)
                /\ selectCalls' = <<>>
                /\ UNCHANGED hoverObj
       ELSE /\ dataCategories' = <<>>
            /\ dataCategoriesSelections' = <<>>
            /\ dataMeasuresDisplayName' = <<>>
            /\ dataMeasuresValue' = <<>>
            /\ dataColors' = <<>>
            /\ polygonsData' = ClearedPolygons
            /\ polygonCapColor' = "clearGlobe"
            /\ selectCalls' = <<>>
            /\ UNCHANGED << colorScale, properties, polygonAltitude, hoverObj,
                            legendContainer >>

(***************************************************************************)
(* onPolygonHover(hoverD): the renderer reports a change of the hovered    *)
(* feature (NoFeature when the pointer leaves); the handler replaces the   *)
(* altitude and cap colour accessors, and the renderer redraws.            *)
(***************************************************************************)
Hover(hoverD) ==
    /\ hoverD # hoverObj
    /\ hoverD = NoFeature \/ hoverD \in RangeOf(polygonsData)
    /\ hoverObj' = hoverD
    /\ polygonAltitude' = "onPolygonHover"
    /\ polygonCapColor' = "onPolygonHover"
    /\ colorScale' = ScaleAfterRender(colorScale, polygonsData, 1, hoverD)
    /\ selectCalls' = <<>>
    /\ UNCHANGED << dataView, dataCategories, dataCategoriesSelections, dataColors,
                    dataMeasuresDisplayName, dataMeasuresValue, properties,
                    polygonsData, legendContainer >>

\* A mutant of handlePolygonClick: the id at the feature's position in the
\* rendered list instead of the id at its orderIndex.
handlePolygonClickByPosition(polygon) ==
    /\ polygon \in RangeOf(polygonsData)
    /\ selectCalls' = << [polygon |-> polygon,
                          id |-> SelectionAt(dataCategoriesSelections,
                                             Num(IndexOf(polygonsData, polygon) - 1))] >>
    /\ UNCHANGED << dataView, dataCategories, dataCategoriesSelections, dataColors,
                    dataMeasuresDisplayName, dataMeasuresValue, colorScale,
                    properties, polygonsData, polygonCapColor, polygonAltitude,
                    hoverObj, legendContainer >>

(***************************************************************************)
(* onPolygonClick(polygon) -> handlePolygonClick(polygon), for a rendered  *)
(* feature.                                                                *)
(***************************************************************************)
handlePolygonClick(polygon) ==
    /\ polygon \in RangeOf(polygonsData)
    /\ selectCalls' = << [polygon |-> polygon,
                          id |-> SelectionAt(dataCategoriesSelections,
                                             properties[polygon].orderIndex)] >>
    /\ UNCHANGED << dataView, dataCategories, dataCategoriesSelections, dataColors,
                    dataMeasuresDisplayName, dataMeasuresValue, colorScale,
                    properties, polygonsData, polygonCapColor, polygonAltitude,
                    hoverObj, legendContainer >>

(***************************************************************************)
(* The payloads the host sends.                                            *)
(***************************************************************************)
CategoryNames == {"France", "Antarctica", "Atlantis"}
ColorValues == {Num(10), Num(20), Str("red"), Str("blue"), Null}
DisplayNames == {"Sales", "Population"}

SeqsOfLen(S, n) == [1..n -> S]
SeqsUpTo(S, n) == UNION {SeqsOfLen(S, k) : k \in 0..n}

\* Row i of the fixed category column used when the colour or the measure
\* columns vary.
RowName(i) == <<"France", "Spain", "Atlantis">>[((i - 1) % 3) + 1]
FixedCategories(n) == [i \in 1..n |-> RowName(i)]
\* A numeric colour column 10, 20, 30, ... of n rows.
RisingColors(n) == [i \in 1..n |-> Num(10 * i)]

\* A numeric colour column of n rows, all 10.
FlatColors(n) == [i \in 1..n |-> Num(10)]

\* Any category column, with no colour column or a numeric one.
JoinPayloads ==
    {Payload(cats, <<>>) : cats \in SeqsUpTo(CategoryNames, MaxRows)} \cup
    {Payload(cats, <<ColorColumn(FlatColors(Len(cats)))>>) :
        cats \in SeqsUpTo(CategoryNames, MaxRows)}
\* Any colour column, or none, over a fixed category column.
ColorPayloads ==
    {Payload(FixedCategories(n), <<>>) : n \in 0..MaxRows} \cup
    UNION {{Payload(FixedCategories(n), <<ColorColumn(vals)>>) :
                vals \in SeqsOfLen(ColorValues, n)} : n \in 0..MaxRows}
\* The value of measure i (counted from 1) at row r: no two measures share a
\* value.
MeasureCell(i, r) == Num(100 * i + r)
\* The column of measure i over n rows; when the measure is in gaps its first
\* row holds the empty string.
MeasureCells(i, n, gaps) ==
    [r \in 1..n |-> IF i \in gaps /\ r = 1 THEN Str("") ELSE MeasureCell(i, r)]
\* Measure columns of distinct display names, with or without a numeric colour
\* column, over a fixed category column.
MeasurePayloads ==
    UNION {UNION {{Payload(FixedCategories(n),
                           [i \in 1..m |-> MeasureColumn(ns[i], MeasureCells(i, n, gaps))]
                               \o tail) :
                       ns \in {q \in SeqsOfLen(DisplayNames, m) :
                                  \A i, j \in 1..m : q[i] = q[j] => i = j},
                       gaps \in SUBSET (1..m),
                       tail \in {<<>>, <<ColorColumn(RisingColors(n))>>}} :
                  m \in 0..MaxMeasures} : n \in 1..MaxRows}

(***************************************************************************)
(* Spec: the category column varies (any names, any order, duplicates),    *)
(* with no colour column or a numeric one.                                 *)
(***************************************************************************)
Next ==
    \/ \E p \in {NoCategories} \cup JoinPayloads : Update(p)
    \/ \E hoverD \in Features \cup {NoFeature} : Hover(hoverD)
    \/ \E polygon \in Features : handlePolygonClick(polygon)

Spec == Init /\ [][Next]_vars

(***************************************************************************)
(* SpecColor: the colour column varies over a fixed category column.       *)
(***************************************************************************)
NextColor ==
    \/ \E p \in {NoCategories} \cup ColorPayloads : Update(p)
    \/ \E hoverD \in Features \cup {NoFeature} : Hover(hoverD)
    \/ \E polygon \in Features : handlePolygonClick(polygon)

SpecColor == Init /\ [][NextColor]_vars

(***************************************************************************)
(* SpecMeasure: the measure columns vary over a fixed category column.     *)
(***************************************************************************)
NextMeasure ==
    \/ \E p \in {NoCategories} \cup MeasurePayloads : Update(p)
    \/ \E hoverD \in Features \cup {NoFeature} : Hover(hoverD)
    \/ \E polygon \in Features : handlePolygonClick(polygon)

SpecMeasure == Init /\ [][NextMeasure]_vars

(***************************************************************************)
(* Properties.                                                             *)
(***************************************************************************)
Rendered == RangeOf(polygonsData)
AdminOf(f) == countriesGeoJson[f].ADMIN

\* The value columns of the latest payload that carry the colour role alone.
ColorColumnsOf(view) ==
    {i \in 1..Len(view.values) :
        "color" \in view.values[i].roles /\ "measure" \notin view.values[i].roles}
\* The latest payload binds a colour column with at least one value.
BindsColor(view) ==
    view.hasCategories /\ \E i \in ColorColumnsOf(view) : view.values[i].values # <<>>

\* C1: after every update cycle the selection-token list has one token per row
\* of the payload's category column, token i being the one built for row i,
\* and it is empty after a cycle without a category column.
C1_TokensMatchRows ==
    /\ dataView.hasCategories =>
          /\ Len(dataCategoriesSelections) = Len(dataView.categories)
          /\ \A i \in 1..Len(dataView.categories) :
                dataCategoriesSelections[i] = createSelectionId(dataView.categories, i - 1)
    /\ ~dataView.hasCategories => dataCategoriesSelections = <<>>

\* A one-row cycle that follows a cycle with two rows (a feature still carries
\* the orderIndex 1 of that cycle).
C1_Witness ==
    /\ dataView.hasCategories
    /\ Len(dataView.categories) = 1
    /\ Len(dataCategoriesSelections) = 1
    /\ \E f \in Features : properties[f].orderIndex = Num(1)

\* C2: every rendered feature has an orderIndex k inside the token list, and a
\* click on it issues exactly one selection request, carrying the token of row
\* k of the latest cycle, the row that names the feature.
C2_ClickSelectsRowToken ==
    /\ \A f \in Rendered :
          /\ properties[f].orderIndex.t = "num"
          /\ properties[f].orderIndex.n >= 0
          /\ properties[f].orderIndex.n < Len(dataCategoriesSelections)
    /\ selectCalls # <<>> =>
          /\ Len(selectCalls) = 1
          /\ selectCalls[1].polygon \in Rendered
          /\ LET k == properties[selectCalls[1].polygon].orderIndex.n
             IN  /\ selectCalls[1].id = dataCategoriesSelections[k + 1]
                 /\ selectCalls[1].id = createSelectionId(dataView.categories, k)
                 /\ dataView.categories[k + 1] = AdminOf(selectCalls[1].polygon)

\* A click on a feature bound to the second row, while another feature still
\* carries the orderIndex of an earlier cycle.
C2_Witness ==
    /\ selectCalls # <<>>
    /\ properties[selectCalls[1].polygon].orderIndex = Num(1)
    /\ selectCalls[1].id.categoryIndex = Num(1)
    /\ \E f \in Features \ Rendered : properties[f].orderIndex.t = "num"

\* C3: every rendered feature carries exactly the attributes the latest cycle
\* gives it: the colour value of its row (no value of an earlier cycle when the
\* latest cycle binds no colour column) and one tooltip name per bound measure.
C3_AttributesOfLatestCycle ==
    \A f \in Rendered :
        /\ IF Len(dataColors) > 0
           THEN properties[f].value =
                    Nullish(At(dataColors, properties[f].orderIndex.n), Num(0))
           ELSE properties[f].value \in {Undefined, Num(0)}
        /\ properties[f].tooltip = dataMeasuresDisplayName

\* C5: no rendered feature has the region code 'AQ'.
C5_NoAQRendered ==
    \A f \in Rendered : countriesGeoJson[f].ISO_A2 # "AQ"

\* C6: the rendered features are exactly the catalog features whose display
\* name is the category of some row, each once, and each carries the position
\* of the first row with its name as orderIndex, counted over all rows.
C6_RenderedIsJoin ==
    /\ Rendered = {f \in Features : \E i \in 1..Len(dataCategories) :
                                        dataCategories[i] = AdminOf(f)}
    /\ Cardinality(Rendered) = Len(polygonsData)
    /\ dataView.hasCategories => dataCategories = dataView.categories
    /\ \A f \in Rendered :
          LET k == properties[f].orderIndex
          IN  /\ k.t = "num" /\ k.n >= 0 /\ k.n < Len(dataCategories)
              /\ dataCategories[k.n + 1] = AdminOf(f)
              /\ \A j \in 1..k.n : dataCategories[j] # AdminOf(f)

\* A row that matches no feature comes first; the feature of the second row is
\* the only one rendered and has orderIndex 1.
C6_Witness ==
    /\ dataView.hasCategories
    /\ dataView.categories = <<"Atlantis", "France">>
    /\ Len(polygonsData) = 1
    /\ AdminOf(polygonsData[1]) = "France"
    /\ properties[polygonsData[1]].orderIndex = Num(1)

\* C10: after a cycle whose payload has no category column nothing is rendered.
C10_AbortClearsRender ==
    ~dataView.hasCategories => polygonsData = <<>>

\* A cycle without a category column after a cycle that rendered a feature.
C10_Witness ==
    /\ ~dataView.hasCategories
    /\ polygonCapColor = "clearGlobe"
    /\ polygonsData = <<>>
    /\ \E f \in Features : properties[f].orderIndex.t = "num"

\* The position of the first occurrence of v in the latest colour values, and
\* the rank of v among the distinct values by first occurrence (from 1).
FirstSeen(v) == CHOOSE i \in 1..Len(dataColors) :
                    dataColors[i] = v /\ \A j \in 1..(i - 1) : dataColors[j] # v
SeenRank(v) == Cardinality({w \in RangeOf(dataColors) : FirstSeen(w) <= FirstSeen(v)})
AllNumbers(colors) == \A i \in 1..Len(colors) : colors[i].t = "num"
IsLeast(colors, m) ==
    (\E i \in 1..Len(colors) : colors[i].n = m) /\ \A i \in 1..Len(colors) : m <= colors[i].n
IsGreatest(colors, m) ==
    (\E i \in 1..Len(colors) : colors[i].n = m) /\ \A i \in 1..Len(colors) : m >= colors[i].n

\* C4: after a cycle that binds a colour column, the colour the renderer is
\* given for every rendered feature is the colour the classifier's scale (the
\* scale of the legend) gives to the feature's value.
C4_RenderedColorIsScaleColor ==
    (BindsColor(dataView) /\ polygonCapColor = "updateChoropleth") =>
        \A f \in Rendered : CapColor(f) = ScaleColor(colorScale, properties[f].value)

\* C7: after a cycle that binds a colour column (and before any redraw on
\* hover), a column of numbers gives a continuous scale over [min, max]; a
\* column whose first value is not a number gives a discrete scale whose domain
\* is the distinct values in first-seen order, the j-th getting palette colour
\* j modulo the palette size.
C7_ClassifiedByFirstValue ==
    (BindsColor(dataView) /\ polygonCapColor # "onPolygonHover") =>
        /\ AllNumbers(dataColors) =>
              /\ colorScale.kind = "sequential"
              /\ colorScale.x0.t = "num" /\ IsLeast(dataColors, colorScale.x0.n)
              /\ colorScale.x1.t = "num" /\ IsGreatest(dataColors, colorScale.x1.n)
        /\ dataColors[1].t # "num" =>
              /\ colorScale.kind = "ordinal"
              /\ RangeOf(colorScale.domain) = RangeOf(dataColors)
              /\ Len(colorScale.domain) = Cardinality(RangeOf(dataColors))
              /\ \A v \in RangeOf(dataColors) :
                    /\ colorScale.domain[SeenRank(v)] = v
                    /\ ScaleColor(colorScale, v) = Palette((SeenRank(v) - 1) % PaletteSize)

\* C8: after a cycle that binds a non-empty colour column the legend is shown
\* and holds the entries of that cycle only: for a continuous scale steps + 1
\* samples, evenly spaced from the least to the greatest colour value with both
\* ends included; for a discrete scale one entry per distinct colour value, in
\* first-seen order, coloured as the scale colours that value.
C8_LegendOfLatestCycle ==
    BindsColor(dataView) =>
        /\ legendContainer.display = "block"
        /\ colorScale.kind = "sequential" =>
              /\ Len(legendContainer.items) = steps + 1
              /\ (colorScale.x0.t = "num" /\ colorScale.x1.t = "num") =>
                    /\ legendContainer.items[1].label.n = 100 * colorScale.x0.n
                    /\ legendContainer.items[steps + 1].label.n = 100 * colorScale.x1.n
                    /\ \A k \in 1..steps :
                          legendContainer.items[k + 1].label.n - legendContainer.items[k].label.n
                              = legendContainer.items[2].label.n - legendContainer.items[1].label.n
                    /\ \A k \in 1..(steps + 1) :
                          /\ legendContainer.items[k].label.t = "fixed2"
                          /\ legendContainer.items[k].color.kind = "ramp"
              /\ AllNumbers(dataColors) =>
                    /\ IsLeast(dataColors, legendContainer.items[1].label.n \div 100)
                    /\ IsGreatest(dataColors, legendContainer.items[steps + 1].label.n \div 100)
        /\ colorScale.kind = "ordinal" =>
              /\ Len(legendContainer.items) = Cardinality(RangeOf(dataColors))
              /\ \A v \in RangeOf(dataColors) :
                    /\ legendContainer.items[SeenRank(v)].color = ScaleColor(colorScale, v)
                    /\ SeenRank(v) > Len(dataMeasuresDisplayName) =>
                          legendContainer.items[SeenRank(v)].label = v

\* A one-row numeric cycle (min = max) after a two-row discrete cycle, whose
\* colour value the second feature still carries: the legend has the steps + 1
\* samples of the latest cycle, all at the one value.
C8_Witness ==
    /\ BindsColor(dataView)
    /\ dataColors = <<Num(20)>>
    /\ colorScale.kind = "sequential"
    /\ Len(legendContainer.items) = steps + 1
    /\ \A k \in 1..(steps + 1) : legendContainer.items[k].label.n = 2000
    /\ \E f \in Features : properties[f].value.t = "str"

\* C9: after a cycle that has a category column and binds no colour column, or
\* an empty one, the legend is hidden.
C9_LegendHiddenWithoutColor ==
    (dataView.hasCategories /\ ~BindsColor(dataView)) =>
        legendContainer.display = "none"

\* A cycle with rows and no colour column, after a cycle that showed a legend
\* (its entries are still children of the hidden container).
C9_Witness ==
    /\ dataView.hasCategories
    /\ dataView.categories # <<>>
    /\ ColorColumnsOf(dataView) = {}
    /\ legendContainer.items # <<>>
    /\ legendContainer.display = "none"

\* C11: after a cycle whose payload has no category column the legend is
\* hidden, whatever the cycle before it showed.
C11_AbortHidesLegend ==
    ~dataView.hasCategories => legendContainer.display = "none"

\* C12: running update() again with the payload of the cycle that has just
\* completed (no redraw on hover in between) changes neither the rendered
\* features, nor their stamped attributes, nor the colour scale, nor the legend
\* (entries and visibility).
C12_RerunChangesNothing ==
    [][(polygonCapColor # "onPolygonHover" /\ Update(dataView)) =>
          /\ polygonsData' = polygonsData
          /\ properties' = properties
          /\ colorScale' = colorScale
          /\ legendContainer' = legendContainer]_vars

\* A completed cycle with two rendered features, a discrete scale and a shown
\* legend, from which the same payload can be sent again.
C12_Witness ==
    /\ BindsColor(dataView)
    /\ polygonCapColor = "updateChoropleth"
    /\ Len(polygonsData) = 2
    /\ colorScale.kind = "ordinal"
    /\ legendContainer.display = "block"
    /\ Len(legendContainer.items) = 2

\* C13: after a cycle with categories and no colour column, every rendered
\* feature that is not the hovered one shows the neutral colour, in every state
\* until the next cycle (during a hover and after its release included).
C13_NeutralWithoutColor ==
    (dataView.hasCategories /\ ~BindsColor(dataView)) =>
        \A f \in Rendered :
            (polygonCapColor = "onPolygonHover" /\ f = hoverObj)
                \/ CapColor(f) = NeutralColor

\* The altitude the renderer is given for feature f by the accessor now set:
\* countriesAltitude * 0.01 ("base"), and 0.05 above it ("raised") for the
\* hovered feature once onPolygonHover has replaced the accessor.
Altitude(f) ==
    IF polygonAltitude = "onPolygonHover" /\ f = hoverObj THEN "raised" ELSE "base"

\* The colour function updateChoropleth binds for the cycle: its own square
\* root scale over the stamped value, or the neutral colour without a colour
\* column.
BoundColor(f) ==
    IF Len(dataColors) > 0
    THEN SequentialSqrtColor(OrElse(properties[f].value, Num(0)))
    ELSE NeutralColor

\* C14: once the hover handler has run, the hovered feature alone is white and
\* raised, and every other rendered feature (all of them when the pointer is
\* over nothing) has the colour of the function bound by the update and the
\* base altitude.
C14_HoverChangesOnlyHovered ==
    polygonCapColor = "onPolygonHover" =>
        \A f \in Rendered :
            IF f = hoverObj
            THEN CapColor(f) = HighlightColor /\ Altitude(f) = "raised"
            ELSE CapColor(f) = BoundColor(f) /\ Altitude(f) = "base"

\* C15: after a cycle with categories, every rendered feature carries what the
\* binder stamps on a match with the first row that has its name: that row's
\* position as orderIndex, that row's colour value as value (0 for null; 0, or
\* nothing at all, when the cycle binds no colour column), and the display
\* names of the cycle's measures, one per measure and no other, as tooltips.
C15_StampedFromMatchedRow ==
    (dataView.hasCategories /\ Len(dataView.categories) > 0) =>
        \A f \in Rendered :
            LET row == IndexOf(dataView.categories, AdminOf(f)) - 1
                color == ColorValuesOf(dataView.values, 1, <<>>)
            IN  /\ properties[f].orderIndex = Num(row)
                /\ properties[f].value \in
                       (IF Len(color) > 0
                        THEN {Nullish(At(color, row), Num(0))}
                        ELSE {Num(0), Undefined})
                /\ properties[f].tooltip = MeasureNames(dataView.values, 1)

\* createTooltip's loop over the keys of d, from the k-th tooltip key on, with
\* its running index into dataMeasuresValue: the value looked up is
\* dataMeasuresValue[index][d.orderIndex], "" when the measure or the cell is
\* missing; a tooltip key whose lookup is not "" is printed with the value and
\* advances the index.
RECURSIVE TooltipsFrom(_, _, _)
TooltipsFrom(d, k, index) ==
    IF k > Len(d.tooltip) THEN <<>>
    ELSE LET cell == IF index < Len(dataMeasuresValue) /\ d.orderIndex.t = "num"
                     THEN At(dataMeasuresValue[index + 1], d.orderIndex.n)
                     ELSE Undefined
             measureValue == IF cell # Undefined THEN cell ELSE Str("")
         IN  IF measureValue # Str("")
             THEN <<[name |-> d.tooltip[k], value |-> measureValue]>>
                      \o TooltipsFrom(d, k + 1, index + 1)
             ELSE TooltipsFrom(d, k + 1, index)

\* createTooltip(d) for the properties of feature f: the display name and the
\* printed "name: value" lines, none when no measure is bound.
createTooltip(f) ==
    [ADMIN |-> countriesGeoJson[f].ADMIN,
     tooltips |-> IF Len(dataMeasuresValue) > 0
                  THEN TooltipsFrom(properties[f], 1, 0)
                  ELSE <<>>]

\* What the label of feature f is to hold for its i-th tooltip attribute: the
\* stamped display name with measure i's value at the feature's orderIndex, the
\* empty text when the measure or the cell is missing.
LabelEntry(f, i) ==
    LET d == properties[f]
        cell == IF i <= Len(dataMeasuresValue) /\ d.orderIndex.t = "num"
                THEN At(dataMeasuresValue[i], d.orderIndex.n)
                ELSE Undefined
    IN  [name |-> d.tooltip[i], value |-> IF cell = Undefined THEN Str("") ELSE cell]

\* C16: the label of every rendered feature holds the feature's display name
\* and, in the order of the tooltip attributes, each attribute's display name
\* with its own measure's value at the feature's orderIndex; an entry whose
\* value is empty may be left out, and no other entry is left out or paired
\* with another measure's value.
C16_LabelPairsEachMeasure ==
    \A f \in Rendered :
        /\ createTooltip(f).ADMIN = AdminOf(f)
        /\ createTooltip(f).tooltips =
               SelectSeq([i \in 1..Len(properties[f].tooltip) |-> LabelEntry(f, i)],
                         LAMBDA e : e.value # Str(""))

====
